---- MODULE Spec2Model ----
(***************************************************************************)
(* Batch sentiment classification pipeline of the genai-streamlit-app:     *)
(* templates/model_responses.py (analyze_single_review,                    *)
(* analyze_all_reviews), templates/prompt_templates.py, the parts of      *)
(* data_handling.py that produce the datasets the pipeline is run on, and  *)
(* the two buttons of avalanche_dashboard_app.py.                          *)
(*                                                                         *)
(* Conventions.  Floating point scores and confidences are held in tenths  *)
(* (0.8 is 8, -1.0 is -10).  A model reply that is a string is a sequence  *)
(* of tokens: "{", "}", a prose word "p", a bare JSON number "7" and one   *)
(* token per JSON object member (the member's separating comma included).  *)
(***************************************************************************)
EXTENDS Integers, Sequences, FiniteSets, TLC

(* ------------------------------ bounds -------------------------------- *)

\* Rows of the CSV file the datasets are taken from (labels 0..MaxRows-1).
MaxRows == 5

\* Longest string reply, in tokens, given to analyze_single_review alone.
MaxTextLen == 4

\* Rows of the CSV files the dashboard ingests.
DashRows == 2

\* Button presses in one dashboard session.
MaxPresses == 3

(* --------------------------- JSON values ------------------------------ *)

\* A scalar JSON value: t is "num" (a number), "numstr" (a string holding a
\* number, "0.3"), "badstr" (any other string, "high"), "null", or "absent"
\* (the key is not in the mapping).  v is the number in tenths.
JV(t, v) == [t |-> t, v |-> v]
Absent == JV("absent", 0)
NoLabel == "<absent>"

\* A JSON object read as a Python dict with the three keys of interest.
Mapping(se, sc, co) == [sentiment |-> se, score |-> sc, confidence |-> co]
EmptyMapping == Mapping(NoLabel, Absent, Absent)

\* A decoded value: t is "map", "num", "list" or "null"; m is the dict when
\* t = "map".
Obj(t, m) == [t |-> t, m |-> m]

(* --------------------- templates/prompt_templates.py ------------------ *)

create_sentiment_prompt(review_text) ==
    << "Analyze the sentiment of the following product review",
       "Review: ", review_text,
       "Remember: Respond with ONLY the JSON object" >>

(* ------------------------------ json.loads ---------------------------- *)

MemberTokens == { "sentiment:positive", "sentiment:mixed", "score:0.8",
                  "score:1.5", "score:high", "confidence:0.9" }

\* The key and value a member token stands for.
MemberKey(tok) ==
    CASE tok \in {"sentiment:positive", "sentiment:mixed"} -> "sentiment"
      [] tok \in {"score:0.8", "score:1.5", "score:high"} -> "score"
      [] OTHER -> "confidence"

MemberLabel(tok) ==
    IF tok = "sentiment:positive" THEN "positive" ELSE "mixed"

MemberValue(tok) ==
    CASE tok = "score:0.8" -> JV("num", 8)
      [] tok = "score:1.5" -> JV("num", 15)
      [] tok = "score:high" -> JV("badstr", 0)
      [] OTHER -> JV("num", 9)

\* dict built from the members in order: a repeated key keeps the last value.
RECURSIVE BuildMapping(_, _)
BuildMapping(members, acc) ==
    IF members = << >> THEN acc
    ELSE LET tok == Head(members)
             k == MemberKey(tok)
             acc2 == CASE k = "sentiment" -> [acc EXCEPT !.sentiment = MemberLabel(tok)]
                       [] k = "score" -> [acc EXCEPT !.score = MemberValue(tok)]
                       [] OTHER -> [acc EXCEPT !.confidence = MemberValue(tok)]
         IN BuildMapping(Tail(members), acc2)

\* json.loads on a token sequence: ok = FALSE stands for json.JSONDecodeError.
json_loads(s) ==
    IF /\ Len(s) >= 2
       /\ s[1] = "{"
       /\ s[Len(s)] = "}"
       /\ \A i \in 2..(Len(s) - 1) : s[i] \in MemberTokens
    THEN [ok |-> TRUE,
          value |-> Obj("map", BuildMapping(SubSeq(s, 2, Len(s) - 1), EmptyMapping))]
    ELSE IF s = << "7" >>
    THEN [ok |-> TRUE, value |-> Obj("num", EmptyMapping)]
    ELSE [ok |-> FALSE, value |-> Obj("null", EmptyMapping)]

(* --------------------------- str.find / rfind ------------------------- *)

\* Python indices: 0-based, -1 when the character does not occur.
find(s, c) ==
    IF \E i \in 1..Len(s) : s[i] = c
    THEN (CHOOSE i \in 1..Len(s) : s[i] = c /\ \A j \in 1..(i - 1) : s[j] # c) - 1
    ELSE -1

rfind(s, c) ==
    IF \E i \in 1..Len(s) : s[i] = c
    THEN (CHOOSE i \in 1..Len(s) : s[i] = c /\ \A j \in (i + 1)..Len(s) : s[j] # c) - 1
    ELSE -1

\* s[a:b - 1]: the slice stops before the closing brace.
Slice_exclusive(s, a, b) == SubSeq(s, a + 1, IF b - 1 > Len(s) THEN Len(s) ELSE b - 1)

\* s[a:b] for 0 <= a and 0 <= b: empty when b <= a.
Slice(s, a, b) == SubSeq(s, a + 1, IF b > Len(s) THEN Len(s) ELSE b)

(* ------------------------- exceptions and float() --------------------- *)

\* Python's class hierarchy for the exception classes that occur.
IsSubclass(cls, base) ==
    \/ cls = base
    \/ base = "Exception"
    \/ base = "ValueError" /\ cls = "JSONDecodeError"

\* float(x): ok = FALSE with the exception class raised.
float(x) ==
    CASE x.t \in {"num", "numstr"} -> [ok |-> TRUE, exc |-> "", v |-> x.v]
      [] x.t = "badstr" -> [ok |-> FALSE, exc |-> "ValueError", v |-> 0]
      [] OTHER -> [ok |-> FALSE, exc |-> "TypeError", v |-> 0]

(* ------------------- templates/model_responses.py --------------------- *)

SentimentResult(se, sc, co) == [sentiment |-> se, score |-> sc, confidence |-> co]

\* What one call of chat_function does: it raises exc (kind "raise"),
\* returns the string text (kind "str") or returns the object obj (kind
\* "obj").
Raises(cls) == [kind |-> "raise", exc |-> cls, text |-> << >>, obj |-> Obj("null", EmptyMapping)]
ReturnsStr(s) == [kind |-> "str", exc |-> "", text |-> s, obj |-> Obj("null", EmptyMapping)]
ReturnsObj(o) == [kind |-> "obj", exc |-> "", text |-> << >>, obj |-> o]

\* Outcome of evaluating an expression: a value or a raised exception class.
Value(r) == [ok |-> TRUE, exc |-> "", value |-> r]
Raise(cls) == [ok |-> FALSE, exc |-> cls, value |-> SentimentResult("", 0, 0)]

\* Lines 62-74: the object the fields are read from.
ParseResponse(b) ==
    IF b.kind = "str"
    THEN LET response == b.text
             start_idx == find(response, "{")
             end_idx == rfind(response, "}")
             json_str == Slice(response, start_idx, end_idx + 1)
             decoded == IF start_idx # -1 /\ end_idx # -1
                        THEN json_loads(json_str)
                        ELSE json_loads(response)
         IN [ok |-> decoded.ok,
             exc |-> IF decoded.ok THEN "" ELSE "JSONDecodeError",
             result |-> decoded.value]
    ELSE [ok |-> TRUE, exc |-> "", result |-> b.obj]

\* result.get(key, default) for the three keys.
GetSentiment(m) == IF m.sentiment = NoLabel THEN "neutral" ELSE m.sentiment
GetScore(m) == IF m.score = Absent THEN JV("num", 0) ELSE m.score
\* result.get("confidence", 0.0): the default of the score used for both.
GetConfidence_zero(m) == IF m.confidence = Absent THEN JV("num", 0) ELSE m.confidence

GetConfidence(m) == IF m.confidence = Absent THEN JV("num", 5) ELSE m.confidence

\* Lines 76-80: the SentimentResult built from result, or the exception that
\* .get or float() raises (arguments are evaluated in order).
BuildResult(result) ==
    IF result.t # "map" THEN Raise("AttributeError")
    ELSE LET sc == float(GetScore(result.m))
             co == float(GetConfidence(result.m))
         IN IF ~sc.ok THEN Raise(sc.exc)
            ELSE IF ~co.ok THEN Raise(co.exc)
            ELSE Value(SentimentResult(GetSentiment(result.m), sc.v, co.v))

\* Lines 58-80: the body of the try statement.
TryBody(b) ==
    IF b.kind = "raise" THEN Raise(b.exc)
    ELSE LET p == ParseResponse(b)
         IN IF ~p.ok THEN Raise(p.exc) ELSE BuildResult(p.result)

\* The try statement with its first except clause only.
ExceptClauses_narrow ==
    << [class |-> "JSONDecodeError", message |-> "Error parsing JSON response",
        returns |-> SentimentResult("error", 0, 0)] >>

\* Lines 81-88: the except clauses in order, with the message each one
\* passes to the warning callback and the value it returns.
ExceptClauses ==
    << [class |-> "JSONDecodeError", message |-> "Error parsing JSON response",
        returns |-> SentimentResult("error", 0, 0)],
       [class |-> "Exception", message |-> "Error analyzing review",
        returns |-> SentimentResult("error", 0, 0)] >>

\* Index of the first except clause that matches cls, 0 when none does.
Handler(cls) ==
    IF \E i \in 1..Len(ExceptClauses) : IsSubclass(cls, ExceptClauses[i].class)
    THEN CHOOSE i \in 1..Len(ExceptClauses) :
            /\ IsSubclass(cls, ExceptClauses[i].class)
            /\ \A j \in 1..(i - 1) : ~IsSubclass(cls, ExceptClauses[j].class)
    ELSE 0

\* analyze_single_review(review_text, chat_function, warning_callback) when
\* the call of chat_function behaves as b.  prompt is the argument passed to
\* chat_function, warnings the messages passed to warning_callback, raised
\* whether an exception leaves the function.
analyze_single_review(review_text, b, warning_callback) ==
    LET prompt == create_sentiment_prompt(review_text)
        t == TryBody(b)
        h == Handler(t.exc)
    IN IF t.ok
       THEN [raised |-> FALSE, exc |-> "", result |-> t.value,
             warnings |-> << >>, prompt |-> prompt]
       ELSE IF h = 0
       THEN [raised |-> TRUE, exc |-> t.exc, result |-> t.value,
             warnings |-> << >>, prompt |-> prompt]
       ELSE [raised |-> FALSE, exc |-> "", result |-> ExceptClauses[h].returns,
             warnings |-> IF warning_callback
                          THEN << ExceptClauses[h].message >> ELSE << >>,
             prompt |-> prompt]

(* ------------------------------ datasets ------------------------------ *)

\* A pandas DataFrame: the row labels in row order, the column names in
\* column order and, for every column, its cells in row order.
Frame(index, columns, data) == [index |-> index, columns |-> columns, data |-> data]

len(f) == Len(f.index)
Range(s) == { s[i] : i \in DOMAIN s }

\* frame[name] = values: an existing column is replaced where it stands, a
\* new one is appended after the others.  ok = FALSE stands for the
\* ValueError pandas raises when values has not one cell per row.
SetColumn(f, name, values) ==
    IF Len(values) # len(f)
    THEN [ok |-> FALSE, frame |-> f]
    ELSE [ok |-> TRUE,
          frame |-> Frame(f.index,
                          IF name \in Range(f.columns) THEN f.columns
                          ELSE Append(f.columns, name),
                          [c \in (DOMAIN f.data) \cup {name} |->
                              IF c = name THEN values ELSE f.data[c]])]

\* data_handling.py: the raw SUMMARY cells ("NaN" is a missing cell).
Summaries == {"Great!", "NaN"}

\* The SUMMARY column of the CSV files read: reviews and missing cells
\* alternate, starting with either.
CsvFiles ==
    { [i \in 1..MaxRows |-> IF (i + k) % 2 = 0 THEN "Great!" ELSE "NaN"] :
        k \in 0..1 }

clean_text(text) ==
    IF text = "NaN" THEN ""
    ELSE IF text = "Great!" THEN "great"
    ELSE text

\* load_dataset: pd.read_csv gives the rows the labels 0..n-1.
read_csv(summary) ==
    Frame([i \in 1..Len(summary) |-> i - 1], << "SUMMARY" >>,
          [c \in {"SUMMARY"} |-> summary])

\* clean_text_column("SUMMARY", "CLEANED_SUMMARY").
clean_text_column(f) ==
    SetColumn(f, "CLEANED_SUMMARY",
              [i \in 1..len(f) |-> clean_text(f.data["SUMMARY"][i])]).frame

\* The positions of the rows of f whose label is in keep, in row order.
RECURSIVE KeptFrom(_, _, _)
KeptFrom(f, keep, i) ==
    IF i > len(f) THEN << >>
    ELSE IF f.index[i] \in keep THEN << i >> \o KeptFrom(f, keep, i + 1)
    ELSE KeptFrom(f, keep, i + 1)

\* create_product_filter: df[mask] keeps the selected rows with their labels.
FilterRows(f, keep) ==
    LET at == KeptFrom(f, keep, 1)
    IN Frame([i \in 1..Len(at) |-> f.index[at[i]]], f.columns,
             [c \in DOMAIN f.data |-> [i \in 1..Len(at) |-> f.data[c][at[i]]]])

(* ------------------------ analyze_all_reviews ------------------------- *)

VARIABLES
    df,                 \* the caller's dataset
    progress_callback,  \* TRUE when a progress callback is passed
    warning_callback,   \* TRUE when a warning callback is passed
    pc,                 \* where analyze_all_reviews stands
    pos,                \* position of the row the for loop is at (0: none yet)
    results,            \* the list results
    total_reviews,
    in_flight,          \* calls of chat_function that have not completed
    chat_calls,         \* the prompts chat_function was called with, in order
    replies,            \* what each completed call of chat_function did
    progress_calls,     \* the calls of progress_callback, in order
    warning_calls,      \* the calls of warning_callback, in order
    returned,           \* << the returned DataFrame >> once it has returned
    single,             \* a call of analyze_single_review on its own
    dash                \* the dashboard: its session state and last event

vars == << df, progress_callback, warning_callback, pc, pos, results,
           total_reviews, in_flight, chat_calls, replies, progress_calls,
           warning_calls, returned, single, dash >>

text_column == "CLEANED_SUMMARY"

\* The columns a previous run of the analysis left in the dataset.
PriorResult == SentimentResult("negative", -4, 7)

WithPriorAnalysis(f) ==
    LET a == SetColumn(f, "SENTIMENT", [i \in 1..len(f) |-> PriorResult.sentiment]).frame
        b == SetColumn(a, "SENTIMENT_SCORE", [i \in 1..len(f) |-> PriorResult.score]).frame
    IN SetColumn(b, "CONFIDENCE", [i \in 1..len(f) |-> PriorResult.confidence]).frame

\* The datasets the pipeline is called on: a CSV file of MaxRows rows,
\* cleaned or not, analysed before or not, and any selection of its rows.
Datasets ==
    { FilterRows(IF analysed THEN WithPriorAnalysis(g) ELSE g, keep) :
        g \in { IF cleaned THEN clean_text_column(read_csv(summary))
                ELSE read_csv(summary) :
                   summary \in CsvFiles, cleaned \in BOOLEAN },
        analysed \in BOOLEAN,
        keep \in SUBSET (0..(MaxRows - 1)) }

\* What a call of chat_function may do during a batch: it raises, or returns
\* prose without a payload, a payload wrapped in prose, or a mapping whose
\* values are outside the ranges the prompt asks for.
Replies ==
    { Raises("ConnectionError"),
      ReturnsStr(<< "p", "p" >>),
      ReturnsStr(<< "p", "{", "sentiment:positive", "score:0.8", "confidence:0.9", "}", "p" >>),
      ReturnsObj(Obj("map", Mapping("mixed", JV("num", 15), JV("num", 12)))) }

\* results.insert(0, sentiment_result) in place of append.
AppendResult_prepend(rs, r) == << r >> \o rs

\* Line 130: results.append(sentiment_result).
AppendResult(rs, r) == Append(rs, r)

\* avalanche_dashboard_app.py: st.session_state holds no "df" yet, no
\* button was pressed.  session is << >> or << the stored DataFrame >>,
\* returned_value what run_sentiment_analysis returned last.
IdleDash ==
    [session |-> << >>, event |-> "none", returned_value |-> "none",
     presses |-> 0]

IdleSingle ==
    [pc |-> "idle", review_text |-> "", behaviour |-> Raises("ConnectionError"),
     warning_callback |-> FALSE,
     outcome |-> analyze_single_review("", Raises("ConnectionError"), FALSE)]

Init ==
    /\ df \in Datasets
    /\ progress_callback \in BOOLEAN
    /\ warning_callback \in BOOLEAN
    /\ pc = "start"
    /\ pos = 0
    /\ results = << >>
    /\ total_reviews = 0
    /\ in_flight = 0
    /\ chat_calls = << >>
    /\ replies = << >>
    /\ progress_calls = << >>
    /\ warning_calls = << >>
    /\ returned = << >>
    /\ single = IdleSingle
    /\ dash = IdleDash

\* Lines 112-113.
Enter ==
    /\ pc = "start"
    /\ results' = << >>
    /\ total_reviews' = len(df)
    /\ pc' = "for"
    /\ UNCHANGED << df, progress_callback, warning_callback, pos, in_flight,
                    chat_calls, replies, progress_calls, warning_calls,
                    returned, single, dash >>

\* The progress callback called at the end of the loop body: a row is
\* reported when the loop moves on from it.
NextRow_late ==
    /\ pc = "for"
    /\ pos < len(df)
    /\ pos' = pos + 1
    /\ progress_calls' =
         IF progress_callback /\ pos >= 1
         THEN Append(progress_calls,
                     [current |-> df.index[pos] + 1, total |-> total_reviews,
                      message |-> [analyzing_review |-> df.index[pos] + 1,
                                   of |-> total_reviews]])
         ELSE progress_calls
    /\ pc' = "row"
    /\ UNCHANGED << df, progress_callback, warning_callback, results,
                    total_reviews, in_flight, chat_calls, replies,
                    warning_calls, returned, single, dash >>

\* Lines 115-122: df.iterrows() yields the next (idx, row) and the progress
\* callback, when there is one, is called with idx + 1.
NextRow ==
    /\ pc = "for"
    /\ pos < len(df)
    /\ pos' = pos + 1
    /\ LET idx == df.index[pos + 1]
       IN progress_calls' =
            IF progress_callback
            THEN Append(progress_calls,
                        [current |-> idx + 1, total |-> total_reviews,
                         message |-> [analyzing_review |-> idx + 1,
                                      of |-> total_reviews]])
            ELSE progress_calls
    /\ pc' = "row"
    /\ UNCHANGED << df, progress_callback, warning_callback, results,
                    total_reviews, in_flight, chat_calls, replies,
                    warning_calls, returned, single, dash >>

\* Line 126: row[text_column] raises KeyError when the column is absent.
RowLookupFails ==
    /\ pc = "row"
    /\ text_column \notin Range(df.columns)
    /\ pc' = "raised"
    /\ UNCHANGED << df, progress_callback, warning_callback, pos, results,
                    total_reviews, in_flight, chat_calls, replies,
                    progress_calls, warning_calls, returned, single, dash >>

\* Lines 125-129, 58-59: analyze_single_review builds the prompt and awaits
\* chat_function(prompt).
InvokeChat ==
    /\ pc = "row"
    /\ text_column \in Range(df.columns)
    /\ chat_calls' = Append(chat_calls,
                            create_sentiment_prompt(df.data[text_column][pos]))
    /\ in_flight' = in_flight + 1
    /\ pc' = "await"
    /\ UNCHANGED << df, progress_callback, warning_callback, pos, results,
                    total_reviews, replies, progress_calls, warning_calls,
                    returned, single, dash >>

\* A row whose classification failed is skipped instead of recorded.
ChatCompletes_skip ==
    /\ pc = "await"
    /\ \E b \in Replies :
         LET idx == df.index[pos]
             out == analyze_single_review(df.data[text_column][pos], b,
                                          warning_callback /\ idx = 0)
         IN /\ replies' = Append(replies, b)
            /\ warning_calls' = warning_calls \o
                   [k \in 1..Len(out.warnings) |->
                       [row |-> pos, message |-> out.warnings[k]]]
            /\ pc' = "for"
            /\ results' = IF out.raised \/ out.result.sentiment = "error"
                          THEN results
                          ELSE AppendResult(results, out.result)
    /\ in_flight' = in_flight - 1
    /\ UNCHANGED << df, progress_callback, warning_callback, pos,
                    total_reviews, chat_calls, progress_calls, returned,
                    single, dash >>

\* A call of chat_function that raised is made again for the same row.
ChatCompletes_retry ==
    /\ pc = "await"
    /\ \E b \in Replies :
         LET idx == df.index[pos]
             out == analyze_single_review(df.data[text_column][pos], b,
                                          warning_callback /\ idx = 0)
         IN /\ replies' = Append(replies, b)
            /\ IF b.kind = "raise"
               THEN /\ pc' = "row"
                    /\ results' = results
                    /\ warning_calls' = warning_calls
               ELSE /\ pc' = "for"
                    /\ results' = AppendResult(results, out.result)
                    /\ warning_calls' = warning_calls \o
                          [k \in 1..Len(out.warnings) |->
                              [row |-> pos, message |-> out.warnings[k]]]
    /\ in_flight' = in_flight - 1
    /\ UNCHANGED << df, progress_callback, warning_callback, pos,
                    total_reviews, chat_calls, progress_calls, returned,
                    single, dash >>

\* Lines 59-88, 128-130: the awaited call completes as b, the rest of
\* analyze_single_review runs and its result is appended.
ChatCompletes ==
    /\ pc = "await"
    /\ \E b \in Replies :
         LET idx == df.index[pos]
             out == analyze_single_review(df.data[text_column][pos], b,
                                          warning_callback /\ idx = 0)
         IN /\ replies' = Append(replies, b)
            /\ warning_calls' = warning_calls \o
                   [k \in 1..Len(out.warnings) |->
                       [row |-> pos, message |-> out.warnings[k]]]
            /\ IF out.raised
               THEN pc' = "raised" /\ results' = results
               ELSE pc' = "for" /\ results' = AppendResult(results, out.result)
    /\ in_flight' = in_flight - 1
    /\ UNCHANGED << df, progress_callback, warning_callback, pos,
                    total_reviews, chat_calls, progress_calls, returned,
                    single, dash >>

\* The three columns assigned to df itself (no df.copy()).
Finish_inplace ==
    /\ pc = "for"
    /\ pos = len(df)
    /\ LET a == SetColumn(df, "SENTIMENT",
                          [i \in 1..Len(results) |-> results[i].sentiment])
           b == SetColumn(a.frame, "SENTIMENT_SCORE",
                          [i \in 1..Len(results) |-> results[i].score])
           c == SetColumn(b.frame, "CONFIDENCE",
                          [i \in 1..Len(results) |-> results[i].confidence])
       IN IF a.ok /\ b.ok /\ c.ok
          THEN pc' = "done" /\ returned' = << c.frame >> /\ df' = c.frame
          ELSE pc' = "raised" /\ returned' = returned /\ df' = df
    /\ UNCHANGED << progress_callback, warning_callback, pos, results,
                    total_reviews, in_flight, chat_calls, replies,
                    progress_calls, warning_calls, single, dash >>

\* An early "if not results: return df" before the columns are added.
Finish_early ==
    /\ pc = "for"
    /\ pos = len(df)
    /\ LET a == SetColumn(df, "SENTIMENT",
                          [i \in 1..Len(results) |-> results[i].sentiment])
           b == SetColumn(a.frame, "SENTIMENT_SCORE",
                          [i \in 1..Len(results) |-> results[i].score])
           c == SetColumn(b.frame, "CONFIDENCE",
                          [i \in 1..Len(results) |-> results[i].confidence])
       IN IF results = << >>
          THEN pc' = "done" /\ returned' = << df >>
          ELSE IF a.ok /\ b.ok /\ c.ok
          THEN pc' = "done" /\ returned' = << c.frame >>
          ELSE pc' = "raised" /\ returned' = returned
    /\ df' = df
    /\ UNCHANGED << progress_callback, warning_callback, pos, results,
                    total_reviews, in_flight, chat_calls, replies,
                    progress_calls, warning_calls, single, dash >>

\* Lines 132-140: the loop is exhausted; the copy gets the three columns and
\* is returned.
Finish ==
    /\ pc = "for"
    /\ pos = len(df)
    /\ LET df_copy == df
           a == SetColumn(df_copy, "SENTIMENT",
                          [i \in 1..Len(results) |-> results[i].sentiment])
           b == SetColumn(a.frame, "SENTIMENT_SCORE",
                          [i \in 1..Len(results) |-> results[i].score])
           c == SetColumn(b.frame, "CONFIDENCE",
                          [i \in 1..Len(results) |-> results[i].confidence])
       IN IF a.ok /\ b.ok /\ c.ok
          THEN pc' = "done" /\ returned' = << c.frame >>
          ELSE pc' = "raised" /\ returned' = returned
    /\ df' = df
    /\ UNCHANGED << progress_callback, warning_callback, pos, results,
                    total_reviews, in_flight, chat_calls, replies,
                    progress_calls, warning_calls, single, dash >>

Next ==
    \/ Enter
    \/ NextRow
    \/ RowLookupFails
    \/ InvokeChat
    \/ ChatCompletes
    \/ Finish

Spec == Init /\ [][Next]_vars

(* ------------------ analyze_single_review on its own ------------------ *)

TextAlphabet ==
    { "{", "}", "p", "7", "sentiment:positive", "score:0.8", "score:high",
      "confidence:0.9" }

Texts == UNION { [1..k -> TextAlphabet] : k \in 0..MaxTextLen }

Mappings ==
    { Mapping(se, sc, co) :
        se \in {NoLabel, "positive", "negative", "neutral", "mixed"},
        sc \in {Absent, JV("num", 8), JV("num", -10), JV("num", 15),
                JV("numstr", 3), JV("badstr", 0), JV("null", 0)},
        co \in {Absent, JV("num", 9), JV("num", 12), JV("badstr", 0),
                JV("null", 0)} }

\* Everything a call of chat_function may do.
Behaviours ==
    { Raises(cls) : cls \in {"ConnectionError", "TimeoutError", "ValueError"} }
    \cup { ReturnsStr(s) : s \in Texts }
    \cup { ReturnsObj(Obj(t, EmptyMapping)) : t \in {"null", "list", "num"} }
    \cup { ReturnsObj(Obj("map", m)) : m \in Mappings }
    \cup Replies

InitSingle ==
    /\ df = read_csv(<< >>)
    /\ progress_callback = FALSE
    /\ warning_callback = FALSE
    /\ pc = "idle"
    /\ pos = 0
    /\ results = << >>
    /\ total_reviews = 0
    /\ in_flight = 0
    /\ chat_calls = << >>
    /\ replies = << >>
    /\ progress_calls = << >>
    /\ warning_calls = << >>
    /\ returned = << >>
    /\ dash = IdleDash
    /\ \E t \in {clean_text(x) : x \in Summaries}, b \in Behaviours, w \in BOOLEAN :
          single = [IdleSingle EXCEPT !.pc = "called", !.review_text = t,
                                      !.behaviour = b, !.warning_callback = w]

\* Lines 57-88: the call runs to its end.
SingleCompletes ==
    /\ single.pc = "called"
    /\ LET out == analyze_single_review(single.review_text, single.behaviour,
                                        single.warning_callback)
       IN single' = [single EXCEPT !.outcome = out,
                                   !.pc = IF out.raised THEN "raised" ELSE "returned"]
    /\ UNCHANGED << df, progress_callback, warning_callback, pc, pos, results,
                    total_reviews, in_flight, chat_calls, replies,
                    progress_calls, warning_calls, returned, dash >>

NextSingle == SingleCompletes

SpecSingle == InitSingle /\ [][NextSingle]_vars

(* --------------------- avalanche_dashboard_app.py --------------------- *)

\* What pd.read_csv may find at the dataset path: a file with a SUMMARY
\* column or one without.
DashFiles ==
    { read_csv([i \in 1..DashRows |-> IF (i + k) % 2 = 0 THEN "Great!" ELSE "NaN"]) :
        k \in 0..1 }
    \cup { Frame([i \in 1..DashRows |-> i - 1], << "PRODUCT" >>,
                 [c \in {"PRODUCT"} |-> [i \in 1..DashRows |-> "Widget"]]) }

InitDash ==
    /\ df = read_csv(<< >>)
    /\ progress_callback = FALSE
    /\ warning_callback = FALSE
    /\ pc = "idle"
    /\ pos = 0
    /\ results = << >>
    /\ total_reviews = 0
    /\ in_flight = 0
    /\ chat_calls = << >>
    /\ replies = << >>
    /\ progress_calls = << >>
    /\ warning_calls = << >>
    /\ returned = << >>
    /\ single = IdleSingle
    /\ dash = IdleDash

\* Lines 82-85, data_handling.py 57-112: the Ingest Dataset button.
\* load_dataset stores the file read, or fails and stores nothing;
\* clean_text_column then adds CLEANED_SUMMARY to the stored dataset, or
\* fails on a file without SUMMARY and leaves it as read.
IngestDataset ==
    /\ pc = "idle"
    /\ dash.presses < MaxPresses
    /\ \/ dash' = [dash EXCEPT !.presses = @ + 1, !.event = "load failed"]
       \/ \E f \in DashFiles :
            dash' = [dash EXCEPT
                       !.presses = @ + 1,
                       !.event = "ingested",
                       !.session = IF "SUMMARY" \in Range(f.columns)
                                   THEN << clean_text_column(f) >>
                                   ELSE << f >>]
    /\ UNCHANGED << df, progress_callback, warning_callback, pc, pos, results,
                    total_reviews, in_flight, chat_calls, replies,
                    progress_calls, warning_calls, returned, single >>

\* The guards of lines 27-34.
CanAnalyze(d) ==
    /\ d.session # << >>
    /\ "CLEANED_SUMMARY" \in Range(d.session[1].columns)

\* Lines 88-90, 27-34: the Analyze Sentiments button when a guard of
\* run_sentiment_analysis fails: it warns and returns False.
AnalyzeRejected ==
    /\ pc = "idle"
    /\ dash.presses < MaxPresses
    /\ ~CanAnalyze(dash)
    /\ dash' = [dash EXCEPT !.presses = @ + 1, !.event = "rejected",
                            !.returned_value = "False"]
    /\ UNCHANGED << df, progress_callback, warning_callback, pc, pos, results,
                    total_reviews, in_flight, chat_calls, replies,
                    progress_calls, warning_calls, returned, single >>

\* Lines 88-90, 36-62: the Analyze Sentiments button when the guards pass:
\* analyze_all_reviews is called on the stored dataset with both callbacks.
AnalyzeStart ==
    /\ pc = "idle"
    /\ dash.presses < MaxPresses
    /\ CanAnalyze(dash)
    /\ dash' = [dash EXCEPT !.presses = @ + 1, !.event = "started",
                            !.returned_value = "none"]
    /\ df' = dash.session[1]
    /\ progress_callback' = TRUE
    /\ warning_callback' = TRUE
    /\ pc' = "start"
    /\ pos' = 0
    /\ results' = << >>
    /\ total_reviews' = 0
    /\ in_flight' = 0
    /\ chat_calls' = << >>
    /\ replies' = << >>
    /\ progress_calls' = << >>
    /\ warning_calls' = << >>
    /\ returned' = << >>
    /\ UNCHANGED single

\* Lines 41-44, 117-122: a Streamlit call of the progress callback raises;
\* nothing in analyze_all_reviews catches it.
ProgressSinkRaises ==
    /\ dash.event = "started"
    /\ pc = "for"
    /\ pos < len(df)
    /\ progress_callback
    /\ pc' = "raised"
    /\ UNCHANGED << df, progress_callback, warning_callback, pos, results,
                    total_reviews, in_flight, chat_calls, replies,
                    progress_calls, warning_calls, returned, single, dash >>

\* The except clause deletes the stored dataset.
AnalyzeFails_clears ==
    /\ dash.event = "started"
    /\ pc = "raised"
    /\ pc' = "idle"
    /\ dash' = [dash EXCEPT !.event = "failed", !.returned_value = "False",
                            !.session = << >>]
    /\ UNCHANGED << df, progress_callback, warning_callback, pos, results,
                    total_reviews, in_flight, chat_calls, replies,
                    progress_calls, warning_calls, returned, single >>

\* Lines 70-72: the analysis raised: the error is shown, False is returned.
AnalyzeFails ==
    /\ dash.event = "started"
    /\ pc = "raised"
    /\ pc' = "idle"
    /\ dash' = [dash EXCEPT !.event = "failed", !.returned_value = "False"]
    /\ UNCHANGED << df, progress_callback, warning_callback, pos, results,
                    total_reviews, in_flight, chat_calls, replies,
                    progress_calls, warning_calls, returned, single >>

\* Lines 64-69: the analysis returned: its result is stored, True is
\* returned.
AnalyzeReturns ==
    /\ dash.event = "started"
    /\ pc = "done"
    /\ pc' = "idle"
    /\ dash' = [dash EXCEPT !.event = "analysed", !.returned_value = "True",
                            !.session = returned]
    /\ UNCHANGED << df, progress_callback, warning_callback, pos, results,
                    total_reviews, in_flight, chat_calls, replies,
                    progress_calls, warning_calls, returned, single >>

\* The stored dataset always has the text column when the analysis runs, so
\* RowLookupFails has no part here.
NextDash ==
    \/ IngestDataset
    \/ AnalyzeRejected
    \/ AnalyzeStart
    \/ Enter
    \/ NextRow
    \/ ProgressSinkRaises
    \/ InvokeChat
    \/ ChatCompletes
    \/ Finish
    \/ AnalyzeFails
    \/ AnalyzeReturns

SpecDash == InitDash /\ [][NextDash]_vars

(* ============================ properties ============================== *)

ErrorSentinel == SentimentResult("error", 0, 0)
ThreeColumns == {"SENTIMENT", "SENTIMENT_SCORE", "CONFIDENCE"}
HasTextColumn == text_column \in Range(df.columns)

\* Why classification of a reply cannot be completed, "none" when it can.
FailureCause(b) ==
    IF b.kind = "raise" THEN "invocation"
    ELSE LET p == ParseResponse(b)
         IN IF ~p.ok THEN "undecodable"
            ELSE IF p.result.t # "map" THEN "not a mapping"
            ELSE IF \/ p.result.m.score.t \in {"badstr", "null"}
                    \/ p.result.m.confidence.t \in {"badstr", "null"}
            THEN "not numeric"
            ELSE "none"

Fails(b) == FailureCause(b) # "none"

\* The result read from the payload of a reply that does not fail.
OwnParse(b) ==
    LET m == ParseResponse(b).result.m
    IN SentimentResult(GetSentiment(m), GetScore(m).v, GetConfidence(m).v)

\* The result a row must carry given what its own call of chat_function did.
RowResult(b) == IF Fails(b) THEN ErrorSentinel ELSE OwnParse(b)

\* The i-th row of the three result columns of frame f.
ResultRow(f, i) ==
    SentimentResult(f.data["SENTIMENT"][i], f.data["SENTIMENT_SCORE"][i],
                    f.data["CONFIDENCE"][i])

(* C1: on a dataset that has the text column, analyze_all_reviews returns  *)
(* normally a dataset with the input's rows in the input's order, the i-th *)
(* call of chat_function was made with the prompt of row i's text, and the *)
(* three result cells of row i are the classification of the i-th reply.   *)
C1_ResultsAligned ==
    HasTextColumn =>
      /\ pc # "raised"
      /\ pc = "done" =>
           LET out == returned[1]
           IN /\ len(out) = len(df)
              /\ out.index = df.index
              /\ out.data[text_column] = df.data[text_column]
              /\ Len(chat_calls) = len(df)
              /\ Len(replies) = len(df)
              /\ \A i \in 1..len(df) :
                   /\ chat_calls[i] = create_sentiment_prompt(df.data[text_column][i])
                   /\ ResultRow(out, i) = RowResult(replies[i])

C1_Witness ==
    /\ pc = "done"
    /\ len(df) >= 3
    /\ df.data[text_column][1] # df.data[text_column][2]
    /\ RowResult(replies[1]) # RowResult(replies[2])
    /\ RowResult(replies[2]) # RowResult(replies[3])
    /\ ResultRow(returned[1], 2) = RowResult(replies[2])

(* C2 as stated: no column of the input is altered or removed in the        *)
(* returned dataset, also when the input already has a column named         *)
(* SENTIMENT, SENTIMENT_SCORE or CONFIDENCE.                                *)
C2_NoInputColumnAltered ==
    pc = "done" =>
      \A c \in Range(df.columns) :
         /\ c \in Range(returned[1].columns)
         /\ returned[1].data[c] = df.data[c]

(* C2 amended: no step changes the caller's dataset; the returned dataset  *)
(* has the input's row labels, the input's columns in their order followed *)
(* by those of the three result columns the input lacked, every input      *)
(* column not named SENTIMENT, SENTIMENT_SCORE or CONFIDENCE unaltered, and *)
(* the three result columns holding the new results (replacing an input    *)
(* column of the same name).                                               *)
C2_FrameEffect ==
    [][ /\ df' = df
        /\ pc' = "done" =>
             LET out == returned'[1]
             IN /\ out.index = df.index
                /\ Range(out.columns) = Range(df.columns) \cup ThreeColumns
                /\ DOMAIN out.data = Range(out.columns)
                /\ SubSeq(out.columns, 1, Len(df.columns)) = df.columns
                /\ Len(out.columns) = Cardinality(Range(out.columns))
                /\ \A c \in Range(df.columns) \ ThreeColumns :
                      out.data[c] = df.data[c]
                /\ Len(results) = len(df)
                /\ \A i \in 1..len(df) : ResultRow(out, i) = results[i]
      ]_vars

C2_Witness ==
    /\ pc = "done"
    /\ len(df) >= 1
    /\ "SENTIMENT" \in Range(df.columns)
    /\ returned[1].data["SENTIMENT"] # df.data["SENTIMENT"]
    /\ returned[1].columns = df.columns
    /\ returned[1].data[text_column] = df.data[text_column]

(* C3: analyze_single_review never raises; when chat_function raises,      *)
(* returns text that does not decode, returns something that is not a      *)
(* mapping, or a mapping with a non-numeric score or confidence, the       *)
(* result is the sentinel (error, 0.0, 0.0) whatever the cause, and the    *)
(* warning callback, when there is one, gets one message that depends on   *)
(* the cause.                                                              *)
C3_SingleNeverRaises ==
    /\ single.pc # "raised"
    /\ single.pc = "returned" =>
         LET cause == FailureCause(single.behaviour)
             out == single.outcome
         IN /\ ~out.raised
            /\ out.prompt = create_sentiment_prompt(single.review_text)
            /\ cause # "none" =>
                 /\ out.result = ErrorSentinel
                 /\ out.warnings =
                      IF ~single.warning_callback THEN << >>
                      ELSE IF cause = "undecodable"
                      THEN << "Error parsing JSON response" >>
                      ELSE << "Error analyzing review" >>
            /\ cause = "none" => out.warnings = << >>

C3_Witness ==
    /\ single.pc = "returned"
    /\ single.warning_callback
    /\ FailureCause(single.behaviour) = "not numeric"
    /\ single.behaviour.kind = "str"
    /\ single.outcome.result = ErrorSentinel
    /\ single.outcome.warnings = << "Error analyzing review" >>

(* C4: on a dataset that has the text column the batch is never aborted:   *)
(* every completed row has exactly one result, which is the sentinel when  *)
(* that row's own call failed and the parse of that row's own reply        *)
(* otherwise, whatever happened to the rows before; the returned dataset   *)
(* carries these results, one per input row.                               *)
C4_FailureIsolation ==
    HasTextColumn =>
      /\ pc # "raised"
      /\ Len(results) = Len(replies)
      /\ \A i \in 1..Len(results) :
           /\ Fails(replies[i]) => results[i] = ErrorSentinel
           /\ ~Fails(replies[i]) => results[i] = OwnParse(replies[i])
      /\ pc = "done" =>
           /\ Len(results) = len(df)
           /\ len(returned[1]) = len(df)
           /\ \A i \in 1..len(df) : ResultRow(returned[1], i) = results[i]

C4_Witness ==
    /\ pc = "done"
    /\ len(df) = 5
    /\ replies[3].kind = "raise"
    /\ \A i \in {1, 2, 4, 5} : ~Fails(replies[i])
    /\ ResultRow(returned[1], 3) = ErrorSentinel
    /\ \A i \in {1, 2, 4, 5} :
         /\ ResultRow(returned[1], i) = OwnParse(replies[i])
         /\ ResultRow(returned[1], i).sentiment # "error"

(* C5 as stated: with a progress callback, a finished batch over N rows    *)
(* has called it exactly N times, with current = 1, 2, ..., N in this      *)
(* order and total = N each time, whatever the row labels.                 *)
C5_ProgressCountsRows ==
    (pc = "done" /\ progress_callback) =>
      /\ Len(progress_calls) = len(df)
      /\ \A i \in 1..Len(progress_calls) :
           /\ progress_calls[i].current = i
           /\ progress_calls[i].total = len(df)

(* C6: with a progress callback, the progress call for a row is made       *)
(* before chat_function is called for that row and after the result of the *)
(* previous row was recorded: at every moment the calls of chat_function   *)
(* are no more than the progress calls, which are at most one more than    *)
(* the results, and while a row is processed the progress calls made are    *)
(* exactly as many as the rows reached.                                    *)
C6_ProgressPrecedesRow ==
    progress_callback =>
      /\ Len(results) <= Len(chat_calls)
      /\ Len(chat_calls) <= Len(progress_calls)
      /\ Len(progress_calls) <= Len(results) + 1
      /\ pc \in {"row", "await"} =>
           /\ Len(progress_calls) = pos
           /\ Len(results) = pos - 1
      /\ pc = "await" => Len(chat_calls) = pos

C6_Witness ==
    /\ progress_callback
    /\ pc = "await"
    /\ pos = 2
    /\ Len(progress_calls) = 2
    /\ Len(results) = 1
    /\ Len(chat_calls) = 2

(* C7 as stated: with a warning callback, it is called at most once in a   *)
(* batch, and a finished batch has called it exactly when classification   *)
(* of the first row in dataset order failed (so exactly once when every    *)
(* row fails and there is at least one row).                               *)
C7_WarnsForFirstRowOnly ==
    (warning_callback /\ HasTextColumn) =>
      /\ Len(warning_calls) <= 1
      /\ pc = "done" =>
           (Len(warning_calls) = 1 <=> (len(df) >= 1 /\ Fails(replies[1])))

(* C8 as stated: every cell of the result columns of the returned dataset  *)
(* is in its documented domain: a label of the four, a score in            *)
(* [-1.0, 1.0], a confidence in [0.0, 1.0].                                *)
C8_OutputDomains ==
    pc = "done" =>
      \A i \in 1..len(returned[1]) :
         LET r == ResultRow(returned[1], i)
         IN /\ r.sentiment \in {"positive", "negative", "neutral", "error"}
            /\ -10 <= r.score /\ r.score <= 10
            /\ 0 <= r.confidence /\ r.confidence <= 10

(* C9: chat_function is called once per row, in row order, and never while *)
(* a call is in flight: at most one call is in flight, the k-th call is    *)
(* made with the prompt of the k-th row, a call that raised is not made    *)
(* again, and a finished batch over N rows has made N calls.               *)
C9_SequentialInvocations ==
    /\ in_flight \in {0, 1}
    /\ in_flight = 1 <=> pc = "await"
    /\ Len(chat_calls) = Len(replies) + in_flight
    /\ Len(chat_calls) <= pos
    /\ pc \in {"await", "for"} /\ HasTextColumn => Len(chat_calls) = pos
    /\ \A k \in 1..Len(chat_calls) :
         chat_calls[k] = create_sentiment_prompt(df.data[text_column][k])
    /\ pc = "done" /\ HasTextColumn => Len(chat_calls) = len(df)

C9_Witness ==
    /\ pc = "done"
    /\ len(df) >= 3
    /\ Len(chat_calls) = len(df)
    /\ replies[1].kind = "raise"
    /\ replies[2].kind = "raise"
    /\ ~Fails(replies[3])

(* C10: on a dataset with no rows analyze_all_reviews returns normally a   *)
(* dataset with no rows that has the three result columns, and calls       *)
(* neither chat_function nor the progress callback nor the warning         *)
(* callback.                                                               *)
C10_EmptyDataset ==
    len(df) = 0 =>
      /\ pc # "raised"
      /\ chat_calls = << >>
      /\ progress_calls = << >>
      /\ warning_calls = << >>
      /\ in_flight = 0
      /\ pc = "done" =>
           /\ len(returned[1]) = 0
           /\ ThreeColumns \subseteq Range(returned[1].columns)
           /\ Range(df.columns) \subseteq Range(returned[1].columns)
           /\ \A c \in ThreeColumns : returned[1].data[c] = << >>

C10_Witness ==
    /\ pc = "done"
    /\ len(df) = 0
    /\ progress_callback
    /\ warning_callback
    /\ "SENTIMENT" \notin Range(df.columns)
    /\ "SENTIMENT" \in Range(returned[1].columns)

\* The mapping the fields of a reply are read from, when there is one: the
\* returned object itself or the object decoded from the returned text.
IsStructured(b) ==
    /\ b.kind # "raise"
    /\ ParseResponse(b).ok
    /\ ParseResponse(b).result.t = "map"

Payload(b) == ParseResponse(b).result.m

BraceSpan(t) ==
    IF (\E i \in 1..Len(t) : t[i] = "{") /\ (\E i \in 1..Len(t) : t[i] = "}")
    THEN LET first == CHOOSE i \in 1..Len(t) :
                         t[i] = "{" /\ \A j \in 1..Len(t) : t[j] = "{" => i <= j
             last == CHOOSE i \in 1..Len(t) :
                         t[i] = "}" /\ \A j \in 1..Len(t) : t[j] = "}" => j <= i
         IN [k \in 1..(last - first + 1) |-> t[first + k - 1]]
    ELSE t

(* C12: for a text reply the function returns without raising; the text    *)
(* decoded is the span from the first "{" to the last "}" inclusive when   *)
(* both occur and the whole text otherwise: when that text does not decode *)
(* the result is the sentinel (with the JSON parsing warning when there is *)
(* a warning callback), when it decodes the result is the one of the       *)
(* decoded object, and in both cases it is the result of the span alone,   *)
(* whatever stands before the first "{" and after the last "}".            *)
C12_BraceSpan ==
    (single.pc = "returned" /\ single.behaviour.kind = "str") =>
      LET t == single.behaviour.text
          span == BraceSpan(t)
          d == json_loads(span)
          out == single.outcome
          alone(b) == analyze_single_review(single.review_text, b,
                                            single.warning_callback)
      IN /\ ~out.raised
         /\ ~d.ok =>
              /\ out.result = ErrorSentinel
              /\ out.warnings = IF single.warning_callback
                                THEN << "Error parsing JSON response" >>
                                ELSE << >>
         /\ d.ok =>
              /\ out.result = alone(ReturnsObj(d.value)).result
              /\ out.warnings = alone(ReturnsObj(d.value)).warnings
         /\ out.result = alone(ReturnsStr(span)).result

C12_Witness ==
    /\ single.pc = "returned"
    /\ single.behaviour.kind = "str"
    /\ single.behaviour.text =
         << "p", "{", "sentiment:positive", "score:0.8", "confidence:0.9", "}", "p" >>
    /\ BraceSpan(single.behaviour.text) =
         << "{", "sentiment:positive", "score:0.8", "confidence:0.9", "}" >>
    /\ single.outcome.result = SentimentResult("positive", 8, 9)

(* C13: in the dashboard, a press of Analyze Sentiments while no dataset   *)
(* is stored or the stored one has no CLEANED_SUMMARY column returns False *)
(* without a call of chat_function; when the analysis raises, False is     *)
(* returned; in both cases the stored dataset stays as it was.  The stored *)
(* dataset changes only by an ingest or by an analysis that returned, and  *)
(* then it becomes the returned dataset and True is returned.              *)
C13_StoredDatasetKept ==
    [][ /\ (/\ dash'.presses = dash.presses + 1
            /\ dash'.event \in {"rejected", "started"}
            /\ ~CanAnalyze(dash)) =>
              /\ dash'.event = "rejected"
              /\ dash'.returned_value = "False"
              /\ dash'.session = dash.session
              /\ chat_calls' = chat_calls
              /\ in_flight' = 0
              /\ pc' = "idle"
        /\ (pc = "raised" /\ pc' = "idle") =>
              /\ dash'.returned_value = "False"
              /\ dash'.session = dash.session
        /\ dash'.session # dash.session =>
              \/ dash'.event = "ingested"
              \/ /\ pc = "done"
                 /\ dash'.returned_value = "True"
                 /\ dash'.session = returned
                 /\ Len(returned) = 1
        /\ dash'.returned_value = "True" /\ dash.returned_value # "True" =>
              pc = "done"
      ]_vars

C13_Witness ==
    /\ dash.event = "failed"
    /\ dash.returned_value = "False"
    /\ pc = "idle"
    /\ dash.session # << >>
    /\ dash.session[1] = df
    /\ "SENTIMENT" \in Range(dash.session[1].columns)
    /\ Len(chat_calls) >= 1

====
